---------------------------- MODULE Spec2Model ----------------------------
(***************************************************************************)
(* A model of lo00l/http-handler: the admission gate (semaphore), the      *)
(* handler (NewHandler, ServeHTTP) and the fan-out/fan-in engine (fetch).  *)
(*                                                                         *)
(* Six specifications share the module:                                    *)
(*   SemSpec    a semaphore used directly by concurrent callers, as        *)
(*              TestSemaphore does;                                        *)
(*   Spec       one observed request going through ServeHTTP while any     *)
(*              number of other requests hold or return gate slots;        *)
(*   FetchSpec  one call of fetch drained by the range loop of ServeHTTP;  *)
(*   FairFetchSpec  the same, with the fairness the Go scheduler gives     *)
(*              runnable goroutines;                                       *)
(*   AbandonSpec  one call of fetch whose caller may stop receiving;       *)
(*   MisuseSpec a semaphore whose callers may release slots they do not    *)
(*              hold.                                                      *)
(***************************************************************************)
EXTENDS Integers, Sequences, FiniteSets, Bags, TLC

(* ------------------------------ bounds -------------------------------- *)

\* number of goroutines that use the semaphore directly (SemSpec)
NCallers == 2
\* largest capacity a directly used semaphore is created with (SemSpec)
MaxCap == 2
\* number of acquire/release calls recorded in one run (SemSpec)
MaxOps == 7
\* longest request payload, in characters (Spec)
MaxPayload == 2
\* longest batch fetch is called with directly (FetchSpec)
MaxUrls == 3
\* longest batch fetch is called with directly (FairFetchSpec)
MaxFairUrls == 2

(* ------------------------ program constants --------------------------- *)

defaultMaxIncomingRequests == 100

(* ----------------------------- variables ------------------------------ *)

VARIABLES
  s,       \* SemSpec: the semaphore under direct use (s in TestSemaphore)
  held,    \* SemSpec: per caller, successful acquires not yet released
  cpc,     \* SemSpec: per caller, "run" or "blocked" (parked in release)
  hist,    \* SemSpec: the calls made so far, in the order they took effect
  h,       \* the Handler: sem, logger, client, maxRequests
  others,  \* requests other than the observed one that hold a gate slot
  req,     \* the observed request: its place in ServeHTTP, input and response
  urls,    \* fetch: the batch
  ch,      \* fetch: the output channel, "nil", "open" or "closed"
  agg,     \* fetch: the aggregator goroutine (loop index, place)
  wg,      \* fetch: the WaitGroup counter
  task     \* fetch: per URL, the task goroutine's place and outcome

semVars == <<s, held, cpc, hist>>
gateVars == <<h, others>>
fetchVars == <<urls, ch, agg, wg, task>>
vars == <<s, held, cpc, hist, h, others, req, urls, ch, agg, wg, task>>

(* ------------------------------ helpers ------------------------------ *)

\* the sum of f over the set S
RECURSIVE SumOver(_, _)
SumOver(f, S) ==
  IF S = {} THEN 0
  ELSE LET x == CHOOSE y \in S : TRUE IN f[x] + SumOver(f, S \ {x})

(* ------------------------- semaphore (gate) --------------------------- *)

Callers == 1..NCallers

\* make(chan struct{}, cap): a buffered channel of empty structs is its
\* capacity, the number of buffered elements, and the queue of goroutines
\* parked in a receive.
newSemaphore(cap) == [cap |-> cap, len |-> 0, recvq |-> <<>>]

\* mutant of acquire: the send does not see a parked receiver, only the
\* buffer
acquireNoHandoff(sem) ==
  IF sem.len < sem.cap
    THEN [ok |-> TRUE, sem |-> [sem EXCEPT !.len = @ + 1], woken |-> {}]
    ELSE [ok |-> FALSE, sem |-> sem, woken |-> {}]

\* mutant of acquire: an empty gate admits whatever its capacity
acquireEmptyAdmits(sem) ==
  IF sem.recvq # <<>>
    THEN [ok |-> TRUE, sem |-> [sem EXCEPT !.recvq = Tail(@)], woken |-> {Head(sem.recvq)}]
    ELSE IF sem.len < sem.cap \/ sem.len = 0
      THEN [ok |-> TRUE, sem |-> [sem EXCEPT !.len = @ + 1], woken |-> {}]
      ELSE [ok |-> FALSE, sem |-> sem, woken |-> {}]

\* mutant of acquire: the capacity test is off by one
acquireOffByOne(sem) ==
  IF sem.recvq # <<>>
    THEN [ok |-> TRUE, sem |-> [sem EXCEPT !.recvq = Tail(@)], woken |-> {Head(sem.recvq)}]
    ELSE IF sem.len <= sem.cap
      THEN [ok |-> TRUE, sem |-> [sem EXCEPT !.len = @ + 1], woken |-> {}]
      ELSE [ok |-> FALSE, sem |-> sem, woken |-> {}]

\* select { case s.ch <- struct{}{}: return true; default: return false }
\* A send completes at once when a receiver is parked (direct hand-off) or
\* the buffer has room; otherwise the default case is taken.
acquire(sem) ==
  IF sem.recvq # <<>>
    THEN [ok |-> TRUE, sem |-> [sem EXCEPT !.recvq = Tail(@)], woken |-> {Head(sem.recvq)}]
    ELSE IF sem.len < sem.cap
      THEN [ok |-> TRUE, sem |-> [sem EXCEPT !.len = @ + 1], woken |-> {}]
      ELSE [ok |-> FALSE, sem |-> sem, woken |-> {}]

\* mutant of release: returns without receiving from the channel
releaseNoReceive(sem, g) == [done |-> TRUE, sem |-> sem]

\* <-s.ch : takes a buffered element, or parks the caller g until a send.
release(sem, g) ==
  IF sem.len > 0
    THEN [done |-> TRUE, sem |-> [sem EXCEPT !.len = @ - 1]]
    ELSE [done |-> FALSE, sem |-> [sem EXCEPT !.recvq = Append(@, g)]]


(* ------------------------------ Handler ------------------------------- *)

\* options.go: the three options NewHandler accepts
WithClient(c) == [opt |-> "client", client |-> c]
WithLogger(l) == [opt |-> "logger", logger |-> l]
LimitRequests(limit) == [opt |-> "limit", limit |-> limit]

\* apply methods of clientOption, loggerOption and limitRequestsOption
apply(o, hh) ==
  IF o.opt = "client" THEN [hh EXCEPT !.client = o.client]
  ELSE IF o.opt = "logger" THEN [hh EXCEPT !.logger = o.logger]
  ELSE [hh EXCEPT !.maxRequests = o.limit]

RECURSIVE applyAll(_, _)
applyAll(opts, hh) ==
  IF opts = <<>> THEN hh ELSE applyAll(Tail(opts), apply(Head(opts), hh))

\* NewHandler: the semaphore is made first, with the default capacity; the
\* options are applied next; a client or logger left nil gets its default.
NewHandler(opts) ==
  LET h0 == [sem |-> newSemaphore(defaultMaxIncomingRequests),
             logger |-> "nil", client |-> "nil", maxRequests |-> 0]
      h1 == applyAll(opts, h0)
      h2 == IF h1.client = "nil" THEN [h1 EXCEPT !.client = "defaultClient"] ELSE h1
  IN  IF h2.logger = "nil" THEN [h2 EXCEPT !.logger = "defaultLogger"] ELSE h2

RECURSIVE SeqsUpTo(_, _)
SeqsUpTo(S, n) ==
  IF n = 0 THEN {<<>>}
  ELSE LET shorter == SeqsUpTo(S, n - 1)
       IN  shorter \cup {Append(q, x) : q \in shorter, x \in S}

\* the option lists NewHandler is called with: none, the request limit of
\* the tests, and all three options together
OptionLists ==
  {<<>>,
   <<LimitRequests(5)>>,
   <<WithClient("customClient"), WithLogger("customLogger"), LimitRequests(1)>>}

(* ------------------------------ payload ------------------------------- *)

\* a payload is a string: a sequence of characters, "\n" the separator
Chars == {"a", "\n"}
Payloads == SeqsUpTo(Chars, MaxPayload)

\* mutant of Split: empty segments are dropped
RECURSIVE SplitNonEmpty(_)
SplitNonEmpty(data) ==
  IF \A i \in 1..Len(data) : data[i] # "\n"
    THEN (IF data = <<>> THEN <<>> ELSE <<data>>)
  ELSE LET k == CHOOSE i \in 1..Len(data) :
                  data[i] = "\n" /\ \A j \in 1..(i - 1) : data[j] # "\n"
       IN  (IF k = 1 THEN <<>> ELSE <<SubSeq(data, 1, k - 1)>>)
             \o SplitNonEmpty(SubSeq(data, k + 1, Len(data)))

\* strings.Split(data, "\n"): the segments between separators; a string
\* without separator is one segment, the empty string included
RECURSIVE Split(_)
Split(data) ==
  IF \A i \in 1..Len(data) : data[i] # "\n" THEN <<data>>
  ELSE LET k == CHOOSE i \in 1..Len(data) :
                  data[i] = "\n" /\ \A j \in 1..(i - 1) : data[j] # "\n"
       IN  <<SubSeq(data, 1, k - 1)>> \o Split(SubSeq(data, k + 1, Len(data)))

\* body lengths a fetched document may have
Sizes == {100, 300}
\* response codes a server may answer with
Codes == {200, 404}

NoRequest ==
  [pc |-> "idle", method |-> "", body |-> [ok |-> TRUE, data |-> <<>>],
   status |-> 0, out |-> <<>>, acq |-> 0, rel |-> 0]

\* a task goroutine: its place, the response code and body length it got,
\* how its fetch ended ("none" while it has not), the values it sent and the
\* lines it logged
NewTask ==
  [pc |-> "new", code |-> 0, size |-> 0, res |-> "none", emitted |-> 0, logged |-> 0]

NoFetch ==
  /\ urls = <<>>
  /\ ch = "nil"
  /\ agg = [pc |-> "off", i |-> 0]
  /\ wg = 0
  /\ task = <<>>

\* a new call of ServeHTTP has made no call of fetch
ForgetFetch ==
  /\ urls' = <<>>
  /\ ch' = "nil"
  /\ agg' = [pc |-> "off", i |-> 0]
  /\ wg' = 0
  /\ task' = <<>>

\* the handler's variables where only the semaphore is exercised
HandlerIdle ==
  /\ h = NewHandler(<<>>)
  /\ others = 0
  /\ req = NoRequest
  /\ NoFetch

SemIdle ==
  /\ s = newSemaphore(0)
  /\ held = [c \in Callers |-> 0]
  /\ cpc = [c \in Callers |-> "run"]
  /\ hist = <<>>

(* ------------------- SemSpec: the gate used directly ------------------ *)

SemInit ==
  /\ HandlerIdle
  /\ s \in {newSemaphore(k) : k \in 0..MaxCap}
  /\ held = [c \in Callers |-> 0]
  /\ cpc = [c \in Callers |-> "run"]
  /\ hist = <<>>

\* mutant of SemAcquire: a plain send, without the default case, which
\* waits for room in the buffer
SemAcquireBlocking(c) ==
  /\ cpc[c] = "run"
  /\ Len(hist) < MaxOps
  /\ s.len < s.cap
  /\ s' = [s EXCEPT !.len = @ + 1]
  /\ held' = [held EXCEPT ![c] = @ + 1]
  /\ hist' = Append(hist, "T")
  /\ UNCHANGED <<cpc, gateVars, req, fetchVars>>

\* caller c calls s.acquire()
SemAcquire(c) ==
  /\ cpc[c] = "run"
  /\ Len(hist) < MaxOps
  /\ LET r == acquire(s) IN
       /\ s' = r.sem
       /\ held' = [held EXCEPT ![c] = IF r.ok THEN @ + 1 ELSE @]
       /\ cpc' = [x \in Callers |-> IF x \in r.woken THEN "run" ELSE cpc[x]]
       /\ hist' = Append(hist, IF r.ok THEN "T" ELSE "F")
  /\ UNCHANGED <<gateVars, req, fetchVars>>

\* caller c calls s.release() for a slot it holds
SemRelease(c) ==
  /\ cpc[c] = "run"
  /\ held[c] > 0
  /\ Len(hist) < MaxOps
  /\ LET r == release(s, c) IN
       /\ s' = r.sem
       /\ held' = [held EXCEPT ![c] = @ - 1]
       /\ cpc' = [cpc EXCEPT ![c] = IF r.done THEN "run" ELSE "blocked"]
       /\ hist' = Append(hist, "R")
  /\ UNCHANGED <<gateVars, req, fetchVars>>

SemNext == \E c \in Callers : SemAcquire(c) \/ SemRelease(c)

SemSpec == SemInit /\ [][SemNext]_vars


(* ------- MisuseSpec: the gate with callers that release unheld ------- *)

\* caller c calls s.release() although it holds no slot
SemReleaseUnheld(c) ==
  /\ cpc[c] = "run"
  /\ held[c] <= 0
  /\ Len(hist) < MaxOps
  /\ LET r == release(s, c) IN
       /\ s' = r.sem
       /\ held' = [held EXCEPT ![c] = @ - 1]
       /\ cpc' = [cpc EXCEPT ![c] = IF r.done THEN "run" ELSE "blocked"]
       /\ hist' = Append(hist, "R")
  /\ UNCHANGED <<gateVars, req, fetchVars>>

MisuseNext == SemNext \/ \E c \in Callers : SemReleaseUnheld(c)

MisuseSpec == SemInit /\ [][MisuseNext]_vars

(* ------------------------ ServeHTTP, step by step --------------------- *)

Methods == {"POST", "GET"}
\* request bodies: readable with some payload, or failing in ReadAll
Bodies == {[ok |-> TRUE, data |-> d] : d \in Payloads}
            \cup {[ok |-> FALSE, data |-> <<>>]}

\* a request reaches the handler: ServeHTTP is called with it
Arrive(m, b) ==
  /\ req.pc = "idle"
  /\ req' = [NoRequest EXCEPT !.pc = "method", !.method = m, !.body = b]
  /\ ForgetFetch
  /\ UNCHANGED <<semVars, gateVars>>

\* mutant of CheckMethod: the return after http.Error(405) is missing
CheckMethodNoReturn ==
  /\ req.pc = "method"
  /\ req' = IF req.method # "POST"
              THEN [req EXCEPT !.pc = "acquire", !.status = 405]
              ELSE [req EXCEPT !.pc = "acquire"]
  /\ UNCHANGED <<semVars, gateVars, fetchVars>>

\* if request.Method != "POST" { http.Error(405); return }
CheckMethod ==
  /\ req.pc = "method"
  /\ req' = IF req.method # "POST"
              THEN [req EXCEPT !.pc = "returned", !.status = 405]
              ELSE [req EXCEPT !.pc = "acquire"]
  /\ UNCHANGED <<semVars, gateVars, fetchVars>>

\* mutant of Admit: the return after http.Error(503) is missing
AdmitNoReturn ==
  /\ req.pc = "acquire"
  /\ LET r == acquire(h.sem) IN
       /\ h' = [h EXCEPT !.sem = r.sem]
       /\ req' = IF r.ok
                   THEN [req EXCEPT !.pc = "read", !.acq = @ + 1]
                   ELSE [req EXCEPT !.pc = "read", !.status = 503]
  /\ UNCHANGED <<semVars, others, fetchVars>>

\* if !h.sem.acquire() { http.Error(503); return }; defer h.sem.release()
Admit ==
  /\ req.pc = "acquire"
  /\ LET r == acquire(h.sem) IN
       /\ h' = [h EXCEPT !.sem = r.sem]
       /\ req' = IF r.ok
                   THEN [req EXCEPT !.pc = "read", !.acq = @ + 1]
                   ELSE [req EXCEPT !.pc = "returned", !.status = 503]
  /\ UNCHANGED <<semVars, others, fetchVars>>

\* mutant of ReadBody: the return after http.Error(400) is missing
ReadBodyNoReturn ==
  /\ req.pc = "read"
  /\ req' = IF req.body.ok
              THEN [req EXCEPT !.pc = "fetch"]
              ELSE [req EXCEPT !.pc = "fetch", !.status = 400]
  /\ UNCHANGED <<semVars, gateVars, fetchVars>>

\* mutant of ReadBody: the release is not deferred, and the early return
\* skips it
ReadBodyNoRelease ==
  /\ req.pc = "read"
  /\ req' = IF req.body.ok
              THEN [req EXCEPT !.pc = "fetch"]
              ELSE [req EXCEPT !.pc = "returned", !.status = 400]
  /\ UNCHANGED <<semVars, gateVars, fetchVars>>

\* data, err := ioutil.ReadAll(request.Body); on error http.Error(400) and
\* return, which runs the deferred release
ReadBody ==
  /\ req.pc = "read"
  /\ req' = IF req.body.ok
              THEN [req EXCEPT !.pc = "fetch"]
              ELSE [req EXCEPT !.pc = "release", !.status = 400]
  /\ UNCHANGED <<semVars, gateVars, fetchVars>>

\* what fetch does before it returns: ch := make(chan int) and the
\* aggregator goroutine is started
fetch(list) ==
  /\ urls' = list
  /\ ch' = "open"
  /\ agg' = [pc |-> "loop", i |-> 1]
  /\ wg' = 0
  /\ task' = [t \in 1..Len(list) |-> NewTask]

\* urls := strings.Split(string(data), "\n"); h.fetch(urls) is called and
\* the range loop over its channel is entered
CallFetch ==
  /\ req.pc = "fetch"
  /\ fetch(Split(req.body.data))
  /\ req' = [req EXCEPT !.pc = "range"]
  /\ UNCHANGED <<semVars, gateVars>>

\* aggregator: one turn of "for _, url := range urls": wg.Add(1); go task
AggLaunch ==
  /\ agg.pc = "loop"
  /\ agg.i <= Len(urls)
  /\ wg' = wg + 1
  /\ task' = [task EXCEPT ![agg.i].pc = "get"]
  /\ agg' = [agg EXCEPT !.i = @ + 1]
  /\ UNCHANGED <<semVars, gateVars, req, urls, ch>>

\* mutant of AggWait: the wait returns only after some task has finished
AggWaitForTask ==
  /\ agg.pc = "loop"
  /\ agg.i > Len(urls)
  /\ wg = 0
  /\ \E t \in DOMAIN task : task[t].pc = "done"
  /\ agg' = [agg EXCEPT !.pc = "close"]
  /\ UNCHANGED <<semVars, gateVars, req, urls, ch, wg, task>>

\* mutant of AggWait: the aggregator does not join the tasks
AggWaitNoJoin ==
  /\ agg.pc = "loop"
  /\ agg.i > Len(urls)
  /\ agg' = [agg EXCEPT !.pc = "close"]
  /\ UNCHANGED <<semVars, gateVars, req, urls, ch, wg, task>>

\* aggregator: wg.Wait() returns once the counter is zero
AggWait ==
  /\ agg.pc = "loop"
  /\ agg.i > Len(urls)
  /\ wg = 0
  /\ agg' = [agg EXCEPT !.pc = "close"]
  /\ UNCHANGED <<semVars, gateVars, req, urls, ch, wg, task>>

\* aggregator: close(ch); closing a closed channel panics
AggClose ==
  /\ agg.pc = "close"
  /\ ch' = "closed"
  /\ agg' = [agg EXCEPT !.pc = IF ch = "closed" THEN "panic" ELSE "done"]
  /\ UNCHANGED <<semVars, gateVars, req, urls, wg, task>>

\* the results h.client.Get(url) may have: an error (the only result for
\* the empty URL, which has no scheme), or a response with some status code
GetResults(url) ==
  {[err |-> TRUE, code |-> 0]}
    \cup (IF url = <<>> THEN {} ELSE {[err |-> FALSE, code |-> c] : c \in Codes})

\* mutant of TaskGet: wg.Done() is not deferred, and the early return on an
\* error skips it
TaskGetNoDone(t) ==
  /\ t \in DOMAIN task
  /\ task[t].pc = "get"
  /\ \E r \in GetResults(urls[t]) :
       task' = [task EXCEPT ![t] =
                  IF r.err
                    THEN [@ EXCEPT !.pc = "done", !.res = "err", !.logged = @ + 1]
                    ELSE [@ EXCEPT !.pc = "read", !.code = r.code]]
  /\ UNCHANGED <<semVars, gateVars, req, urls, ch, agg, wg>>

\* mutant of TaskGet: a failed Get is logged and a zero length is sent
TaskGetSendsZero(t) ==
  /\ t \in DOMAIN task
  /\ task[t].pc = "get"
  /\ \E r \in GetResults(urls[t]) :
       task' = [task EXCEPT ![t] =
                  IF r.err
                    THEN [@ EXCEPT !.pc = "send", !.res = "err", !.logged = @ + 1]
                    ELSE [@ EXCEPT !.pc = "read", !.code = r.code]]
  /\ UNCHANGED <<semVars, gateVars, req, urls, ch, agg, wg>>

\* task: resp, err := h.client.Get(url); on error h.logger.Println(err)
\* and return
TaskGet(t) ==
  /\ t \in DOMAIN task
  /\ task[t].pc = "get"
  /\ \E r \in GetResults(urls[t]) :
       task' = [task EXCEPT ![t] =
                  IF r.err
                    THEN [@ EXCEPT !.pc = "deferred", !.res = "err", !.logged = @ + 1]
                    ELSE [@ EXCEPT !.pc = "read", !.code = r.code]]
  /\ UNCHANGED <<semVars, gateVars, req, urls, ch, agg, wg>>

\* the results ioutil.ReadAll(resp.Body) may have: an error, or the content
ReadResults == {[err |-> TRUE, size |-> 0]} \cup {[err |-> FALSE, size |-> n] : n \in Sizes}

\* mutant of TaskRead: the return after logging the read error is missing
TaskReadNoReturn(t) ==
  /\ t \in DOMAIN task
  /\ task[t].pc = "read"
  /\ \E r \in ReadResults :
       task' = [task EXCEPT ![t] =
                  IF r.err
                    THEN [@ EXCEPT !.pc = "send", !.res = "err", !.logged = @ + 1]
                    ELSE [@ EXCEPT !.pc = "send", !.res = "ok", !.size = r.size]]
  /\ UNCHANGED <<semVars, gateVars, req, urls, ch, agg, wg>>

\* task: content, err := ioutil.ReadAll(resp.Body); on error
\* h.logger.Println(err) and return
TaskRead(t) ==
  /\ t \in DOMAIN task
  /\ task[t].pc = "read"
  /\ \E r \in ReadResults :
       task' = [task EXCEPT ![t] =
                  IF r.err
                    THEN [@ EXCEPT !.pc = "deferred", !.res = "err", !.logged = @ + 1]
                    ELSE [@ EXCEPT !.pc = "send", !.res = "ok", !.size = r.size]]
  /\ UNCHANGED <<semVars, gateVars, req, urls, ch, agg, wg>>

\* task: ch <- len(content). The channel is unbuffered: the send completes
\* together with a receive of the range loop, whose body writes the line
\* (fmt.Fprintln(writer, size); the first write sends status 200). A send on
\* a closed channel panics.
TaskSend(t) ==
  /\ t \in DOMAIN task
  /\ task[t].pc = "send"
  /\ IF ch = "closed" THEN TRUE ELSE req.pc = "range"
  /\ IF ch = "closed"
       THEN /\ task' = [task EXCEPT ![t].pc = "panic"]
            /\ req' = req
       ELSE /\ task' = [task EXCEPT ![t].pc = "deferred", ![t].emitted = @ + 1]
            /\ req' = [req EXCEPT !.out = Append(@, task[t].size), !.status = 200]
  /\ UNCHANGED <<semVars, gateVars, urls, ch, agg, wg>>

\* task: the deferred wg.Done()
TaskDone(t) ==
  /\ t \in DOMAIN task
  /\ task[t].pc = "deferred"
  /\ wg' = wg - 1
  /\ task' = [task EXCEPT ![t].pc = "done"]
  /\ UNCHANGED <<semVars, gateVars, req, urls, ch, agg>>

\* mutant of RangeEnd: the loop is left after the first value received
RangeEndAfterFirst ==
  /\ req.pc = "range"
  /\ ch = "closed" \/ req.out # <<>>
  /\ req' = [req EXCEPT !.pc = "release"]
  /\ UNCHANGED <<semVars, gateVars, fetchVars>>

\* the range loop ends when the channel is closed
RangeEnd ==
  /\ req.pc = "range"
  /\ ch = "closed"
  /\ req' = [req EXCEPT !.pc = "release"]
  /\ UNCHANGED <<semVars, gateVars, fetchVars>>

\* the deferred h.sem.release(), then ServeHTTP returns (a handler that
\* wrote nothing answers 200)
Release ==
  /\ req.pc = "release"
  /\ LET r == release(h.sem, "req") IN
       /\ h' = [h EXCEPT !.sem = r.sem]
       /\ req' = [req EXCEPT !.pc = IF r.done THEN "returned" ELSE "blocked",
                             !.rel = @ + 1,
                             !.status = IF @ = 0 THEN 200 ELSE @]
  /\ UNCHANGED <<semVars, others, fetchVars>>

\* the observed request is over; the next one to arrive is observed
NextRequest ==
  /\ req.pc = "returned"
  /\ req' = NoRequest
  /\ ForgetFetch
  /\ UNCHANGED <<semVars, gateVars>>

\* another POST request passes line 90: it takes a slot or is refused
OtherAdmit ==
  /\ LET r == acquire(h.sem) IN
       /\ h' = [h EXCEPT !.sem = r.sem]
       /\ others' = IF r.ok THEN others + 1 ELSE others
  /\ UNCHANGED <<semVars, req, fetchVars>>

\* another admitted request returns: its deferred release runs
OtherRelease ==
  /\ others > 0
  /\ LET r == release(h.sem, "other") IN
       /\ h' = [h EXCEPT !.sem = r.sem]
       /\ others' = others - 1
  /\ UNCHANGED <<semVars, req, fetchVars>>

\* a payload of n characters splits into at most n + 1 URLs
TaskIds == 1..(IF MaxPayload + 1 > MaxUrls THEN MaxPayload + 1 ELSE MaxUrls)

EngineNext ==
  \/ AggLaunch \/ AggWait \/ AggClose
  \/ \E t \in TaskIds : TaskGet(t) \/ TaskRead(t) \/ TaskSend(t) \/ TaskDone(t)

Init ==
  /\ SemIdle
  /\ \E opts \in OptionLists : h = NewHandler(opts)
  /\ others = 0
  /\ req = NoRequest
  /\ NoFetch

Next ==
  \/ \E m \in Methods, b \in Bodies : Arrive(m, b)
  \/ CheckMethod \/ Admit \/ ReadBody \/ CallFetch
  \/ EngineNext
  \/ RangeEnd \/ Release \/ NextRequest
  \/ OtherAdmit \/ OtherRelease

Spec == Init /\ [][Next]_vars

(* ----------------- FetchSpec: one call of fetch, drained -------------- *)

\* the batches fetch is called with: any list of at most n URLs, the empty
\* list included, of URLs that are the empty string or not
UrlLists(n) == SeqsUpTo({<<>>, <<"a">>}, n)

\* an admitted request has reached line 108 and calls h.fetch(list)
FetchCalled(n) ==
  /\ SemIdle
  /\ \E list \in UrlLists(n) :
       /\ urls = list
       /\ task = [t \in 1..Len(list) |-> NewTask]
  /\ ch = "open"
  /\ agg = [pc |-> "loop", i |-> 1]
  /\ wg = 0
  /\ h = [NewHandler(<<>>) EXCEPT !.sem.len = 1]
  /\ others = 0
  /\ req = [NoRequest EXCEPT !.pc = "range", !.method = "POST", !.acq = 1]

FetchInit == FetchCalled(MaxUrls)

FetchNext == EngineNext \/ RangeEnd \/ Release

FetchSpec == FetchInit /\ [][FetchNext]_vars

(* ------- FairFetchSpec: the same, under the scheduler's fairness ------ *)

FairFetchInit == FetchCalled(MaxFairUrls)

\* the scheduler runs some runnable goroutine as long as there is one, and
\* every call of the fetch capability returns
FetchFairness == WF_vars(FetchNext)

FairFetchSpec == FairFetchInit /\ [][FetchNext]_vars /\ FetchFairness

(* ---- AbandonSpec: fetch with a caller that may stop receiving ------- *)

\* the holder of the <-chan int that fetch returned stops receiving from it
\* before it is closed
Abandon ==
  /\ req.pc = "range"
  /\ ch = "open"
  /\ req' = [req EXCEPT !.pc = "abandoned"]
  /\ UNCHANGED <<semVars, gateVars, fetchVars>>

AbandonNext == FetchNext \/ Abandon

AbandonSpec == FetchInit /\ [][AbandonNext]_vars

(* --------------------------- SemSpec claims --------------------------- *)

\* C1: for a gate of capacity K, under any interleaving of acquire and
\* release by concurrent callers that release only what they acquired, the
\* slots in use stay within 0..K and the callers never hold more than K
\* successful acquires between them.
C1_GateBounded ==
  /\ 0 <= s.len
  /\ s.len <= s.cap
  /\ SumOver(held, Callers) <= s.cap
  /\ SumOver(held, Callers) = s.len

\* the gate is full, two different callers hold slots, and a further acquire
\* has been refused
C1_Witness ==
  /\ s.cap = MaxCap
  /\ s.len = s.cap
  /\ \A c \in Callers : c <= 2 => held[c] >= 1
  /\ \E i \in 1..Len(hist) : hist[i] = "F"
  /\ \E i \in 1..Len(hist) : hist[i] = "R"

\* what one acquire call by c does, seen from its caller
AcquirePost(c) ==
  IF s.len < s.cap
    THEN /\ s'.len = s.len + 1
         /\ held' = [held EXCEPT ![c] = @ + 1]
         /\ hist' = Append(hist, "T")
    ELSE /\ s' = s
         /\ held' = held
         /\ hist' = Append(hist, "F")

\* C2: acquire never blocks its caller: whatever the gate state (free,
\* partly used, full) and whatever the other callers hold, a caller's
\* acquire can take its step at once, and that one step returns true and
\* reserves a slot if one is free, and returns false reserving nothing
\* otherwise.
C2_AcquireNeverBlocks ==
  \A c \in Callers :
    (cpc[c] = "run" /\ Len(hist) < MaxOps) =>
      /\ ENABLED SemAcquire(c)
      /\ ~ ENABLED (SemAcquire(c) /\ ~ AcquirePost(c))

\* an acquire was refused on a full gate and the run went on: the refused
\* caller was not parked and later calls were made
C2_Witness ==
  /\ s.cap >= 1
  /\ \E i \in 1..Len(hist) : hist[i] = "F" /\ i < Len(hist)
  /\ \A c \in Callers : cpc[c] = "run"
  /\ s.len = s.cap

IsAcq(e) == e \in {"T", "F"}

\* slots in use after the first n calls of the history: successful acquires
\* minus releases
RECURSIVE InUseAfter(_)
InUseAfter(n) ==
  IF n = 0 THEN 0
  ELSE InUseAfter(n - 1)
         + (IF hist[n] = "T" THEN 1 ELSE 0) - (IF hist[n] = "R" THEN 1 ELSE 0)

NumBefore(i, e) == Cardinality({j \in 1..(i - 1) : hist[j] = e})

\* C3: for a gate of capacity K whose calls take effect one after another:
\* before any release, an acquire returns true exactly when fewer than K
\* acquires came before it (the first K succeed, the (K+1)-th fails); and
\* once K slots were taken and R released, an acquire returns true exactly
\* while fewer than R acquires have succeeded since (R succeed, the next
\* fails). Both are the law: true iff acquired - released < K.
C3_SequentialGate ==
  \A i \in 1..Len(hist) :
    IsAcq(hist[i]) =>
      /\ (hist[i] = "T") <=> (InUseAfter(i - 1) < s.cap)
      /\ NumBefore(i, "R") = 0 =>
           ((hist[i] = "T") <=> (NumBefore(i, "T") + NumBefore(i, "F") < s.cap))

\* K = 2: two acquires succeed, the third fails, one release, exactly one
\* further acquire succeeds and the next fails
C3_Witness ==
  /\ s.cap = 2
  /\ hist = <<"T", "T", "F", "R", "T", "F">>

\* C16: on a gate of capacity 0 every acquire returns false: the calls
\* made so far all failed, nobody holds a slot, the gate is as it was made,
\* no caller is parked, and for every caller a further acquire is possible
\* at once and can only return false.
C16_ZeroCapacityBlocksAll ==
  s.cap = 0 =>
    /\ \A i \in 1..Len(hist) : hist[i] = "F"
    /\ s = newSemaphore(0)
    /\ \A c \in Callers : held[c] = 0 /\ cpc[c] = "run"
    /\ Len(hist) < MaxOps =>
         \A c \in Callers :
           /\ ENABLED SemAcquire(c)
           /\ ~ ENABLED (SemAcquire(c) /\ ~ (/\ hist' = Append(hist, "F")
                                            /\ s' = s
                                            /\ held' = held))

\* a gate of capacity 0 has refused as many acquires as a run records
C16_Witness ==
  /\ s.cap = 0
  /\ Len(hist) = MaxOps
  /\ hist[MaxOps] = "F"

\* callers parked in a release
Parked == {c \in Callers : cpc[c] = "blocked"}

\* C20: a release on a gate with no slot in use leaves the count at 0 and
\* parks its caller; a parked caller resumes only by a step that is an
\* acquire returning true; while a caller is parked every acquire is
\* possible and returns true, handing its slot to the caller parked first
\* with the count unchanged, whatever the capacity, 0 included; the count
\* stays within 0..capacity, and it is the successful acquires minus the
\* releases made, the parked ones not counted.
C20_UnheldReleaseParks ==
  /\ 0 <= s.len /\ s.len <= s.cap
  /\ s.recvq # <<>> => s.len = 0
  /\ Parked = {s.recvq[i] : i \in 1..Len(s.recvq)}
  /\ Cardinality(Parked) = Len(s.recvq)
  /\ SumOver(held, Callers) = s.len - Len(s.recvq)
  /\ \A c \in Parked :
       ~ ENABLED (MisuseNext /\ cpc'[c] = "run" /\ hist' # Append(hist, "T"))
  /\ \A c \in Callers \ Parked :
       (s.len = 0 /\ held[c] <= 0 /\ Len(hist) < MaxOps) =>
         /\ ENABLED SemReleaseUnheld(c)
         /\ ~ ENABLED (SemReleaseUnheld(c) /\ ~ (/\ s'.len = 0
                                                /\ cpc'[c] = "blocked"
                                                /\ s'.recvq = Append(s.recvq, c)))
  /\ \A c \in Callers \ Parked :
       (s.recvq # <<>> /\ Len(hist) < MaxOps) =>
         /\ ENABLED SemAcquire(c)
         /\ ~ ENABLED (SemAcquire(c) /\ ~ (/\ hist' = Append(hist, "T")
                                          /\ cpc'[Head(s.recvq)] = "run"
                                          /\ s'.recvq = Tail(s.recvq)
                                          /\ s'.len = s.len))

\* on a gate of capacity 0 a release parked its caller and an acquire of
\* the other caller returned true and resumed it
C20_Witness ==
  /\ s.cap = 0
  /\ hist = <<"R", "T">>
  /\ Parked = {}
  /\ s.len = 0
  /\ \E c \in Callers : held[c] = 1

(* -------------------------- FetchSpec claims -------------------------- *)

Tasks == DOMAIN task
Succeeded == {t \in Tasks : task[t].res = "ok"}
Failed == {t \in Tasks : task[t].res = "err"}

RECURSIVE SeqBag(_)
\* the bag of the elements of a sequence
SeqBag(q) == IF q = <<>> THEN EmptyBag ELSE SetToBag({Head(q)}) (+) SeqBag(Tail(q))

RECURSIVE SizeBag(_)
\* the bag of the body lengths of a set of tasks
SizeBag(S) ==
  IF S = {} THEN EmptyBag
  ELSE LET t == CHOOSE x \in S : TRUE
       IN  SetToBag({task[t].size}) (+) SizeBag(S \ {t})

Emitted == SumOver([t \in Tasks |-> task[t].emitted], Tasks)
Logged == SumOver([t \in Tasks |-> task[t].logged], Tasks)

\* C5: for a batch whose fetches all terminate and whose output is drained,
\* the output of fetch eventually closes, when it is closed it has delivered
\* exactly one value per successful fetch, and the engine does not hang:
\* every goroutine it started ends.
C5_FanOutCompletes ==
  /\ <>(ch = "closed")
  /\ [](ch = "closed" =>
          /\ Len(req.out) = Cardinality(Succeeded)
          /\ SeqBag(req.out) = SizeBag(Succeeded))
  /\ <>(agg.pc = "done" /\ \A t \in Tasks : task[t].pc = "done")

\* a full batch is over, with values delivered and a fetch failed
C5_Witness ==
  /\ ch = "closed"
  /\ Len(urls) = MaxFairUrls
  /\ Succeeded # {}
  /\ Failed # {}
  /\ req.pc = "returned"

\* C6: the output of a batch is closed once, and only after every task
\* launched for the batch has terminated: it is never closed while a task
\* is unstarted, fetching, reading or waiting to send, no task sends on a
\* closed output, and the output is not closed twice.
C6_CloseAfterAllTasks ==
  /\ ch = "closed" => \A t \in Tasks : task[t].pc = "done"
  /\ \A t \in Tasks : task[t].pc # "panic"
  /\ agg.pc # "panic"
  /\ agg.pc = "done" <=> ch = "closed"

\* the output of a full batch is closed after a task had its value received
C6_Witness ==
  /\ ch = "closed"
  /\ Len(urls) = MaxUrls
  /\ \E t \in Tasks : task[t].emitted = 1
  /\ \E t \in Tasks : task[t].logged = 1 /\ urls[t] # <<>>

\* C7: every task ends in exactly one of two outcomes: a successful fetch
\* sends the body length once and logs nothing, a failed one (Get or
\* ReadAll) logs one line and sends nothing; and over a whole batch the
\* values sent and the failures logged add up to the number of URLs.
C7_OneOutcomePerTask ==
  /\ \A t \in Tasks :
       /\ task[t].emitted + task[t].logged <= 1
       /\ task[t].emitted = 1 => task[t].res = "ok"
       /\ task[t].logged = 1 <=> task[t].res = "err"
       /\ task[t].pc = "done" => task[t].emitted + task[t].logged = 1
  /\ Len(req.out) = Emitted
  /\ SeqBag(req.out) = SizeBag({t \in Tasks : task[t].emitted = 1})
  /\ ch = "closed" => Emitted + Logged = Len(urls)

\* a batch is over in which one task failed in Get, one in ReadAll and one
\* sent its length
C7_Witness ==
  /\ ch = "closed"
  /\ \E t \in Tasks : task[t].res = "err" /\ task[t].code = 0 /\ task[t].pc = "done"
  /\ \E t \in Tasks : task[t].res = "err" /\ task[t].code # 0 /\ task[t].pc = "done"
  /\ \E t \in Tasks : task[t].res = "ok" /\ task[t].pc = "done"

\* C8: failures of single URLs never fail the batch: an admitted batch of N
\* URLs of which M fail (M = N included) ends with the success outcome, and
\* its response holds one line per successful fetch, the lengths of the
\* N - M successful fetches as a multiset, in any order.
C8_FailuresAbsorbed ==
  req.pc = "returned" =>
    /\ req.status = 200
    /\ Cardinality(Failed) + Cardinality(Succeeded) = Len(urls)
    /\ Len(req.out) = Len(urls) - Cardinality(Failed)
    /\ SeqBag(req.out) = SizeBag(Succeeded)

\* three URLs, the first fails, the other two are fetched and their lengths
\* written in the order opposite to the input
C8_Witness ==
  /\ req.pc = "returned"
  /\ Len(urls) = 3
  /\ task[1].res = "err" /\ task[2].res = "ok" /\ task[3].res = "ok"
  /\ task[2].size = 100 /\ task[3].size = 300
  /\ req.out = <<300, 100>>

\* every URL of a batch failed: the response is empty and still a success
C8_AllFail ==
  /\ req.pc = "returned"
  /\ Len(urls) = MaxUrls
  /\ Failed = Tasks


\* C14: a fetch answered with a response code outside 200..299 is an
\* error: the task logs it and sends no length, so the response has no
\* line for it.
C14_Non2xxIsError ==
  \A t \in DOMAIN task :
    (task[t].code # 0 /\ task[t].code \notin 200..299) =>
      /\ task[t].pc # "send"
      /\ task[t].emitted = 0
      /\ task[t].pc \in {"deferred", "done"} => task[t].logged = 1

\* C15: once the caller of fetch has stopped receiving, the goroutines of
\* the batch are never all stuck before they are done: as long as the channel
\* is not closed or some task has not finished, some goroutine of the batch
\* can take a step.
C15_NoLeakAfterAbandon ==
  req.pc = "abandoned" =>
    \/ /\ ch = "closed"
       /\ agg.pc = "done"
       /\ \A t \in DOMAIN task : task[t].pc = "done"
    \/ ENABLED EngineNext

\* C17: fetch called with no URL starts no task and never counts one to
\* wait for: the aggregator's wait and its close can each be taken as soon
\* as it is there, the range loop ends as soon as the channel is closed, and
\* nothing is sent or logged.
C17_EmptyBatch ==
  urls = <<>> /\ ch # "nil" =>
    /\ task = <<>>
    /\ wg = 0
    /\ Emitted = 0 /\ Logged = 0
    /\ req.out = <<>>
    /\ agg.pc \in {"loop", "close", "done"}
    /\ agg.pc = "loop" => ch = "open" /\ ENABLED AggWait
    /\ agg.pc = "close" => ch = "open" /\ ENABLED AggClose
    /\ agg.pc = "done" => ch = "closed"
    /\ (req.pc = "range" /\ ch = "closed") => ENABLED RangeEnd

\* the channel of an empty batch is closed and the range loop over it has
\* ended with nothing written
C17_Witness ==
  /\ urls = <<>>
  /\ ch = "closed"
  /\ agg.pc = "done"
  /\ req.pc = "returned"
  /\ req.out = <<>>

(* ----------------------------- Spec claims ---------------------------- *)

\* gate slots the observed request holds
Holds == req.acq - req.rel

\* C4: a handler built with LimitRequests(K) that gets K + J submissions
\* before any admitted one finishes processes K of them and answers J with
\* service-unavailable (5 and 5 for K = 5 and 10 submissions): never more
\* than K batches hold a slot, and a submission that arrives while K are
\* being processed is refused.
C4_AdmissionUnderLoad ==
  h.maxRequests > 0 =>
    /\ others + Holds <= h.maxRequests
    /\ (req.pc = "acquire" /\ others >= h.maxRequests) =>
         ~ ENABLED (Admit /\ req'.status # 503)

\* C9: ServeHTTP releases the gate once for every successful acquire, on
\* every way out of the guarded region (the batch was processed, or the
\* payload could not be read), and never on a way out where acquire failed or
\* was not called (another method, a refusal); so the slots in use are
\* those of the requests still in flight, and zero once all have returned.
C9_ReleaseOncePerAcquire ==
  /\ req.rel <= req.acq
  /\ req.acq <= 1
  /\ h.sem.len = others + Holds
  /\ req.pc \in {"idle", "method", "acquire"} => req.acq = 0
  /\ req.pc \in {"read", "fetch", "range", "release"} => (req.acq = 1 /\ req.rel = 0)
  /\ req.pc # "blocked"
  /\ req.pc = "returned" =>
       /\ req.rel = req.acq
       /\ req.status \in {200, 400} => req.acq = 1
       /\ req.status \in {405, 503} => req.acq = 0
       /\ others = 0 => h.sem.len = 0

\* a request whose payload could not be read has returned, on a gate that
\* nobody else holds: its slot is free again
C9_Witness ==
  /\ req.pc = "returned"
  /\ req.status = 400
  /\ req.acq = 1 /\ req.rel = 1
  /\ others = 0
  /\ h.sem.len = 0

\* a processed batch has returned while the other requests hold every slot
\* but the one it gave back
C9_WitnessProcessed ==
  /\ req.pc = "returned"
  /\ req.status = 200
  /\ req.out # <<>>
  /\ others = h.sem.cap - 1
  /\ h.sem.len = others

\* C10: when the gate denies admission the request is answered
\* service-unavailable in that same step and ServeHTTP returns: fetch is not
\* called for it (no channel, no task, nothing logged), its payload is not
\* read or split, and it takes and returns no slot, so the slots in use are
\* those of the other requests.
C10_RejectionHasNoEffect ==
  /\ (req.pc = "acquire" /\ h.sem.len >= h.sem.cap) =>
       ~ ENABLED (Admit /\ ~ (/\ req'.status = 503
                              /\ req'.pc = "returned"
                              /\ h' = h))
  /\ req.status = 503 =>
       /\ req.pc = "returned"
       /\ req.acq = 0 /\ req.rel = 0
       /\ req.out = <<>>
       /\ NoFetch
       /\ h.sem.len = others

\* a POST with two URLs was refused on a saturated gate
C10_Witness ==
  /\ req.status = 503
  /\ req.method = "POST"
  /\ req.body.ok /\ Len(Split(req.body.data)) = 2
  /\ others = h.sem.cap
  /\ h.sem.len = h.sem.cap

\* C11: a request whose method is not POST is answered method-not-allowed
\* in the step that tests the method, whatever the gate holds, a saturated
\* gate included; it calls neither acquire nor release and fetch is not
\* called for it.
C11_NonPostRejected ==
  /\ (req.pc = "method" /\ req.method # "POST") =>
       ~ ENABLED (CheckMethod /\ ~ (/\ req'.status = 405
                                    /\ req'.pc = "returned"
                                    /\ h' = h))
  /\ (req.method # "POST" /\ req.pc \notin {"idle", "method"}) =>
       /\ req.pc = "returned"
       /\ req.status = 405
  /\ req.status = 405 =>
       /\ req.method # "POST"
       /\ req.acq = 0 /\ req.rel = 0
       /\ req.out = <<>>
       /\ NoFetch
       /\ h.sem.len = others

\* a GET that carries a batch of two URLs was answered 405 on a saturated
\* gate
C11_Witness ==
  /\ req.status = 405
  /\ req.method = "GET"
  /\ req.body.ok /\ Len(Split(req.body.data)) = 2
  /\ others = h.sem.cap
  /\ h.sem.len = h.sem.cap

\* the observed request is a POST whose body cannot be read
UnreadablePost == req.method = "POST" /\ ~ req.body.ok

\* C12 as stated: a POST whose payload cannot be read is answered
\* bad-request before admission is attempted: it never acquires a slot, its
\* answer is bad-request whatever the gate holds, and fetch is not called.
C12_BadRequestBeforeAdmission ==
  (UnreadablePost /\ req.pc \notin {"idle", "method", "acquire"}) =>
    /\ req.acq = 0
    /\ req.pc = "returned" => req.status = 400
    /\ NoFetch

\* C12 amended: a POST whose payload cannot be read is answered bad-request
\* after it was admitted: it holds one slot when ReadAll fails, gives it
\* back on its return, and fetch is not called for it; on a saturated gate
\* it is answered service-unavailable instead, the body not being read.
C12_BadRequestAfterAdmission ==
  /\ (UnreadablePost /\ req.pc = "acquire" /\ h.sem.len = h.sem.cap) =>
       ~ ENABLED (Admit /\ ~ (req'.status = 503 /\ req'.pc = "returned"))
  /\ (UnreadablePost /\ req.pc = "read") =>
       /\ req.acq = 1 /\ req.rel = 0
       /\ ~ ENABLED (ReadBody /\ ~ (/\ req'.status = 400
                                   /\ req'.pc = "release"
                                   /\ h' = h))
  /\ (UnreadablePost /\ req.pc \notin {"idle", "method", "acquire", "read"}) =>
       /\ req.status \in {400, 503}
       /\ req.status = 503 => (req.acq = 0 /\ req.pc = "returned")
  /\ req.status = 400 =>
       /\ UnreadablePost
       /\ req.pc \in {"release", "returned"}
       /\ req.acq = 1
       /\ req.rel = (IF req.pc = "returned" THEN 1 ELSE 0)
       /\ req.out = <<>>
       /\ NoFetch

\* an unreadable POST has returned with bad-request, its slot given back
C12_Witness ==
  /\ UnreadablePost
  /\ req.pc = "returned"
  /\ req.status = 400
  /\ req.acq = 1 /\ req.rel = 1

\* the value the last option of the given kind in opts carries, or def when
\* opts has none
RECURSIVE Given(_, _, _)
Given(opts, kind, def) ==
  IF opts = <<>> THEN def
  ELSE LET o == opts[Len(opts)]
       IN  IF o.opt = kind
             THEN (IF kind = "client" THEN o.client
                   ELSE IF kind = "logger" THEN o.logger ELSE o.limit)
             ELSE Given(SubSeq(opts, 1, Len(opts) - 1), kind, def)

\* C13: the capacity given at construction is the capacity of the gate
\* ServeHTTP uses, and it is 100 when none is given: the handler admits at
\* most that many overlapping requests and refuses the next; a client and a
\* logger given at construction replace the defaults, which stay otherwise.
C13_ConfiguredCapacity ==
  \E opts \in OptionLists :
    /\ h.client = Given(opts, "client", "defaultClient")
    /\ h.logger = Given(opts, "logger", "defaultLogger")
    /\ LET n == Given(opts, "limit", defaultMaxIncomingRequests) IN
         /\ h.sem.cap = n
         /\ others + Holds <= n
         /\ (req.pc = "acquire" /\ others = n) =>
              ~ ENABLED (Admit /\ req'.status # 503)

\* the number of separators in a payload
Newlines(data) == Cardinality({i \in 1..Len(data) : data[i] = "\n"})

\* the segments of list written one after the other, a separator between
\* two of them
RECURSIVE Join(_)
Join(list) ==
  IF Len(list) = 0 THEN <<>>
  ELSE IF Len(list) = 1 THEN list[1]
  ELSE list[1] \o <<"\n">> \o Join(Tail(list))

\* tasks the aggregator has launched and that have not run wg.Done()
Running == {t \in Tasks : task[t].pc \in {"get", "read", "send", "deferred"}}

\* C18: the batch fetch works on is the payload cut at its newlines, every
\* segment kept (one more segment than newlines, the empty ones and the
\* repeated ones included); there is one task per segment, the aggregator
\* launches them in order, the counter it joins on counts the launched tasks
\* not yet finished, so the join has waited for as many tasks as segments;
\* the task of an empty segment fails in Get, logs once and sends nothing.
C18_OneTaskPerSegment ==
  ch # "nil" =>
    /\ urls = Split(req.body.data)
    /\ Len(urls) = Newlines(req.body.data) + 1
    /\ Join(urls) = req.body.data
    /\ DOMAIN task = 1..Len(urls)
    /\ agg.i \in 1..(Len(urls) + 1)
    /\ \A t \in Tasks : task[t].pc = "new" <=> t >= agg.i
    /\ wg = Cardinality(Running)
    /\ agg.pc \in {"close", "done"} =>
         /\ agg.i = Len(urls) + 1
         /\ \A t \in Tasks : task[t].pc = "done"
    /\ \A t \in Tasks :
         urls[t] = <<>> =>
           /\ task[t].pc \in {"new", "get", "deferred", "done"}
           /\ task[t].emitted = 0
           /\ task[t].pc \in {"deferred", "done"} =>
                task[t].res = "err" /\ task[t].logged = 1

\* the payload of two newlines made three tasks for three empty URLs; all
\* three failed and were logged, and the channel is closed
C18_Witness ==
  /\ req.body.data = <<"\n", "\n">>
  /\ Len(urls) = 3
  /\ \A t \in Tasks : task[t].pc = "done" /\ task[t].logged = 1
  /\ Logged = 3
  /\ ch = "closed"
  /\ req.out = <<>>

\* C19: an admitted request keeps its slot while its batch is processed:
\* as long as the channel of its fetch is open or one of its tasks has not
\* finished (a task whose fetch never returns stays at its Get), the request
\* is in its range loop, holds its slot, and neither the end of the loop nor
\* the release can be taken; when the slot has been given back after a call
\* of fetch the channel is closed, every task has finished and every value
\* sent is in the response.
C19_SlotHeldWhileProcessing ==
  /\ (ch = "open" \/ \E t \in Tasks : task[t].pc # "done") =>
       /\ req.pc = "range"
       /\ Holds = 1 /\ req.rel = 0
       /\ h.sem.len >= 1
       /\ ~ ENABLED RangeEnd
       /\ ~ ENABLED Release
  /\ (ch # "nil" /\ req.pc \in {"release", "returned"}) =>
       /\ ch = "closed"
       /\ \A t \in Tasks : task[t].pc = "done"
       /\ Len(req.out) = Emitted
  /\ (ch # "nil" /\ req.rel > 0) => req.pc = "returned"

\* one length is already in the response, the other task of the batch is
\* still in its Get, and the request holds its slot in the range loop
C19_Witness ==
  /\ Len(urls) = 2
  /\ Len(req.out) = 1
  /\ \E t \in Tasks : task[t].pc = "get"
  /\ req.pc = "range"
  /\ Holds = 1
  /\ others > 0

=============================================================================
